---- MODULE Spec2Model ----
(***************************************************************************)
(* A model of the Caffe inference kernel of scanner                        *)
(* (src/scanner/kernels/caffe_kernel.cpp):                                 *)
(*   - descriptor_from_net_file: the parser of a net description document, *)
(*   - CaffeKernel::new_frame_info: the derivation of the net input shape, *)
(*   - CaffeKernel::execute: the per-chunk loop (reshape, stage, forward,  *)
(*     save) over the frames of one call.                                  *)
(***************************************************************************)
EXTENDS Integers, Sequences, FiniteSets, TLC

VARIABLES
  document,        \* the parsed TOML document handed to descriptor_from_net_file
  parsed,          \* outcome of descriptor_from_net_file on document
  args,            \* args_: batch_size and net_descriptor of the kernel
  frame_info,      \* frame_info_: <<width, height>> of the upstream frames
  input_blobs,     \* shape <<n, c, h, w>> of each input layer's blob of net_
  staged,          \* per input blob: the frame ids copied into its buffer
  overrun,         \* a staging memcpy wrote past the end of an input blob
  output_blobs,    \* per output layer: the bytes of its blob after the forward pass
  pc,              \* position of the kernel: idle or a step of execute's loop
  input_count,     \* execute: number of rows of input_columns[0]
  frame,           \* execute: the loop variable
  batch_count,     \* execute: size of the current chunk
  blocks,          \* the blocks new_block_buffer returned during the current call
  output_columns,  \* the rows pushed to each output column during the current call
  chunks,          \* log: one entry per chunk of the current call
  history          \* log: the last operation and the shape it started from

vars == <<document, parsed, args, frame_info, input_blobs, staged, overrun,
          output_blobs, pc, input_count, frame, batch_count, blocks,
          output_columns, chunks, history>>

parserVars == <<document, parsed>>

kernelVars == <<args, frame_info, input_blobs, staged, overrun, output_blobs,
                pc, input_count, frame, batch_count, blocks, output_columns,
                chunks, history>>

(***************************************************************************)
(* Bounds of the model.                                                    *)
(***************************************************************************)
MaxBatch == 4

MaxFrames == 10

(***************************************************************************)
(* Program constants.                                                      *)
(***************************************************************************)
\* the "unset" value of input_width, input_height and pad_mod
Unset == -1

\* sizeof(float)
SizeofFloat == 4

\* number of significand bits of an f32
F32Bits == 24

Min(a, b) == IF a < b THEN a ELSE b

RECURSIVE Pow2(_)
Pow2(k) == IF k = 0 THEN 1 ELSE 2 * Pow2(k - 1)

RECURSIVE Gcd(_, _)
Gcd(a, b) == IF b = 0 THEN a ELSE Gcd(b, a % b)

(***************************************************************************)
(* f32 arithmetic.  A non-negative f32 value is <<m, e>>, standing for     *)
(* m * 2^e, with m odd (or <<0, 0>>) and m < 2^24.  The operations round   *)
(* to nearest, ties to even, as IEEE 754 single precision does.            *)
(***************************************************************************)
RECURSIVE F32Norm(_, _)
F32Norm(m, e) ==
  IF m = 0 THEN <<0, 0>>
  ELSE IF m % 2 = 0 THEN F32Norm(m \div 2, e + 1)
  ELSE <<m, e>>

RECURSIVE BitLen(_)
BitLen(m) == IF m = 0 THEN 0 ELSE 1 + BitLen(m \div 2)

\* m * 2^e rounded to 24 significant bits
F32Round(m, e) ==
  LET s == BitLen(m) - F32Bits IN
  IF s <= 0 THEN F32Norm(m, e)
  ELSE LET q    == m \div Pow2(s)
           r    == m % Pow2(s)
           half == Pow2(s - 1)
           up   == r > half \/ (r = half /\ q % 2 = 1)
       IN  F32Norm(IF up THEN q + 1 ELSE q, e + s)

\* static_cast<f32>(n), and the promotion of an i32 operand to f32
I32ToF32(n) == F32Round(n, 0)

\* the least k with p * 2^k >= q * 2^23, as <<p * 2^k, k>>
RECURSIVE F32Scale(_, _, _)
F32Scale(p, q, k) ==
  IF p >= q * Pow2(F32Bits - 1) THEN <<p, k>> ELSE F32Scale(2 * p, q, k + 1)

\* a / b in f32, b # 0
F32Div(a, b) ==
  IF a[1] = 0 THEN <<0, 0>>
  ELSE LET g == Gcd(a[1], b[1])
           p == a[1] \div g
           q == b[1] \div g
       IN  IF q = 1 THEN F32Norm(p, a[2] - b[2])
           ELSE LET sc   == F32Scale(p, q, 0)
                    quot == sc[1] \div q
                    rem  == sc[1] % q
                IN  F32Norm(IF 2 * rem > q THEN quot + 1 ELSE quot,
                            a[2] - b[2] - sc[2])

\* a * b in f32
F32Mul(a, b) == F32Round(a[1] * b[1], a[2] + b[2])

\* the conversion of a non-negative f32 to i32: truncation
F32ToI32(a) ==
  IF a[2] >= 0 THEN a[1] * Pow2(a[2]) ELSE a[1] \div Pow2(0 - a[2])

(***************************************************************************)
(* descriptor_from_net_file.  A document is the set of the key paths it    *)
(* holds, with the value of net.preserve_aspect_ratio; the other values    *)
(* are fixed per key.                                                      *)
(***************************************************************************)
NetRequiredKeys ==
  {"net.model", "net.weights", "net.input_layers", "net.output_layers"}

NetInputParts ==
  {{}} \cup { {"net.input"} \cup s :
                s \in SUBSET {"net.input.dimensions", "net.input.channel_ordering"} }

NetFlagParts == {{}, {"net.pad_mod", "net.normalize", "net.transpose"}}

NetParts ==
  {{}} \cup
  { {"net"} \cup req \cup inp \cup dims \cup par \cup flags :
      req \in SUBSET NetRequiredKeys,
      inp \in NetInputParts,
      dims \in SUBSET {"net.input_width", "net.input_height"},
      par \in SUBSET {"net.preserve_aspect_ratio"},
      flags \in NetFlagParts }

MeanColors ==
  {"mean-image.colors.blue", "mean-image.colors.green", "mean-image.colors.red"}

MeanParts ==
  {{}} \cup
  { {"mean-image"} \cup s :
      s \in {{}, {"mean-image.empty"},
             {"mean-image.colors"} \cup MeanColors,
             {"mean-image.colors"} \cup (MeanColors \ {"mean-image.colors.blue"}),
             {"mean-image.colors"} \cup (MeanColors \ {"mean-image.colors.green"}),
             {"mean-image.colors"} \cup (MeanColors \ {"mean-image.colors.red"}),
             {"mean-image.path", "mean-image.width", "mean-image.height"},
             {"mean-image.path", "mean-image.height"},
             {"mean-image.path", "mean-image.width"},
             {"mean-image.colors", "mean-image.path"} \cup MeanColors} }

Documents ==
  UNION { { [keys |-> n \cup m, preserve |-> p] :
              p \in IF "net.preserve_aspect_ratio" \in n THEN BOOLEAN ELSE {FALSE} } :
          <<n, m>> \in NetParts \X MeanParts }

\* toml::Value::find / has: whether the document holds the key
Find(doc, key) == key \in doc.keys

\* the values the documents give their keys
StringValue(key) ==
  CASE key = "net.model" -> "m.net"
    [] key = "net.weights" -> "w.bin"
    [] key = "mean-image.path" -> "mean.binaryproto"

ArrayValue(key) ==
  CASE key = "net.input_layers" -> <<"data">>
    [] key = "net.output_layers" -> <<"prob">>
    [] key = "net.input.channel_ordering" -> <<"blue", "green", "red">>

IntValue(key) ==
  CASE key = "net.input_width" -> 320
    [] key = "net.input_height" -> 240
    [] key = "net.pad_mod" -> 32
    [] key = "mean-image.width" -> 256
    [] key = "mean-image.height" -> 256
    [] key = "mean-image.colors.blue" -> 104
    [] key = "mean-image.colors.green" -> 117
    [] key = "mean-image.colors.red" -> 123

NoDescriptor == [none |-> TRUE]

\* exit(EXIT_FAILURE) after the message naming key
Fatal(key) ==
  [status |-> "fatal", diag |-> key, descriptor |-> NoDescriptor,
   mean_reads |-> 0, net_loads |-> 0]

Returned(d, reads) ==
  [status |-> "ok", diag |-> "", descriptor |-> d,
   mean_reads |-> reads, net_loads |-> 0]

\* the checks of the required keys of the net table, in the order of the
\* code; "" when none is missing
MissingNetKeyMutant(doc) ==
  IF ~Find(doc, "net") THEN "net"
  ELSE IF ~Find(doc, "net.model") THEN "net.model"
  ELSE IF ~Find(doc, "net.weights") THEN "net.weights"
  ELSE IF ~Find(doc, "net.input_layers") THEN "net.input_layers"
  ELSE IF ~Find(doc, "net.input") THEN "net.input"
  ELSE IF ~Find(doc, "net.input.dimensions") THEN "net.input.dimensions"
  ELSE IF ~Find(doc, "net.input.channel_ordering")
       THEN "net.input.channel_ordering"
  ELSE IF ~Find(doc, "net.output_layers") THEN "net.output_layers"
  ELSE ""

MissingNetKey(doc) ==
  IF ~Find(doc, "net") THEN "net"
  ELSE IF ~Find(doc, "net.model") THEN "net.model"
  ELSE IF ~Find(doc, "net.weights") THEN "net.weights"
  ELSE IF ~Find(doc, "net.input_layers") THEN "net.input_layers"
  ELSE IF ~Find(doc, "net.output_layers") THEN "net.output_layers"
  ELSE IF ~Find(doc, "net.input") THEN "net.input"
  ELSE IF ~Find(doc, "net.input.dimensions") THEN "net.input.dimensions"
  ELSE IF ~Find(doc, "net.input.channel_ordering")
       THEN "net.input.channel_ordering"
  ELSE ""

\* the outcome of the input size resolution that ends in exit(EXIT_FAILURE)
NoSize == <<>>

\* the resolution of input_width and input_height: the pair
\* <<input_width, input_height>> set on the descriptor, or NoSize
InputSize(doc) ==
  LET preserve_aspect ==
        IF Find(doc, "net.preserve_aspect_ratio") THEN doc.preserve ELSE FALSE
      w == Find(doc, "net.input_width")
      h == Find(doc, "net.input_height")
  IN  IF preserve_aspect
      THEN IF h THEN <<Unset, IntValue("net.input_height")>>
           ELSE IF w THEN <<IntValue("net.input_width"), Unset>>
           ELSE NoSize
      ELSE IF w /\ h
           THEN <<IntValue("net.input_width"), IntValue("net.input_height")>>
           ELSE <<Unset, Unset>>

\* the mean colors in the order of net.input.channel_ordering
RECURSIVE MeanColorsOf(_)
MeanColorsOf(order) ==
  IF order = <<>> THEN <<>>
  ELSE LET color == Head(order)
           rest  == MeanColorsOf(Tail(order))
       IN  IF color \in {"red", "green", "blue"}
           THEN <<IntValue("mean-image.colors." \o color)>> \o rest
           ELSE rest

\* the descriptor as set before the mean-image table is read
BaseDescriptor(doc, size) ==
  [model_path            |-> StringValue("net.model"),
   model_weights_path    |-> StringValue("net.weights"),
   input_layer_names     |-> ArrayValue("net.input_layers"),
   output_layer_names    |-> ArrayValue("net.output_layers"),
   preserve_aspect_ratio |->
     IF Find(doc, "net.preserve_aspect_ratio") THEN doc.preserve ELSE FALSE,
   input_width           |-> size[1],
   input_height          |-> size[2],
   pad_mod   |-> IF Find(doc, "net.pad_mod") THEN IntValue("net.pad_mod") ELSE Unset,
   normalize |-> Find(doc, "net.normalize"),
   transpose |-> Find(doc, "net.transpose"),
   mean_colors |-> <<>>,
   mean_width  |-> 0,
   mean_height |-> 0]

\* the mean-image table: the last part of descriptor_from_net_file
MeanImage(doc, d) ==
  IF ~Find(doc, "mean-image") THEN Fatal("mean-image")
  ELSE IF Find(doc, "mean-image.colors")
  THEN IF ~Find(doc, "mean-image.colors.blue")
       THEN Fatal("mean-image.colors.blue")
       ELSE IF ~Find(doc, "mean-image.colors.green")
       THEN Fatal("mean-image.colors.green")
       ELSE IF ~Find(doc, "mean-image.colors.red")
       THEN Fatal("mean-image.colors.red")
       ELSE Returned([d EXCEPT !.mean_colors =
                        MeanColorsOf(ArrayValue("net.input.channel_ordering"))],
                     0)
  ELSE IF Find(doc, "mean-image.path")
  THEN IF ~Find(doc, "mean-image.width") THEN Fatal("mean-image.width")
       ELSE IF ~Find(doc, "mean-image.height") THEN Fatal("mean-image.height")
       ELSE Returned([d EXCEPT !.mean_width = IntValue("mean-image.width"),
                               !.mean_height = IntValue("mean-image.height")],
                     1)
  ELSE IF ~Find(doc, "mean-image.empty")
  THEN Fatal("mean-image.{colors,path,empty}")
  ELSE Returned(d, 0)

descriptor_from_net_file(doc) ==
  LET missing == MissingNetKey(doc) IN
  IF missing # "" THEN Fatal(missing)
  ELSE LET size == InputSize(doc) IN
       IF size = NoSize THEN Fatal("preserve_aspect_ratio")
       ELSE MeanImage(doc, BaseDescriptor(doc, size))

NotParsed == [status |-> "none"]


(***************************************************************************)
(* The net of a kernel.  Its blobs are known by their layer names; the     *)
(* native shape of an input blob and the number of floats an output layer  *)
(* yields per frame come from the model file.                              *)
(***************************************************************************)
NativeShape(name, n) ==
  IF name = "data" THEN <<n, 3, 224, 224>> ELSE <<n, 3, 1, 1>>

NativeBatchSizes == {1, 2}

OutputLength(name) == IF name = "prob" THEN 1 ELSE 2

InputLayerChoices == {<<"data">>, <<"data", "im_info">>}

OutputLayerChoices == {<<"prob">>, <<"prob", "feat">>}

\* the input size settings of a descriptor, as descriptor_from_net_file
\* leaves them: <<preserve_aspect_ratio, input_width, input_height>>
SizeChoices ==
  {<<FALSE, Unset, Unset>>, <<FALSE, 300, 211>>, <<FALSE, 256, 256>>,
   <<TRUE, 320, Unset>>, <<TRUE, Unset, 240>>}

PadChoices == {Unset, 32}

Descriptors(sizes, pads, transposes, ins, outs) ==
  { [input_layer_names     |-> i,
     output_layer_names    |-> o,
     preserve_aspect_ratio |-> s[1],
     input_width           |-> s[2],
     input_height          |-> s[3],
     pad_mod               |-> p,
     transpose             |-> t] :
      s \in sizes, p \in pads, t \in transposes, i \in ins, o \in outs }

\* the geometries of the upstream frames
Geometries == {<<640, 480>>, <<4, 3>>, <<3, 7>>}

NoFrameInfo == <<0, 0>>

Stale == -1

(***************************************************************************)
(* CaffeKernel::CaffeKernel: the first input blob is reshaped to the       *)
(* configured batch size, the other input blobs keep their native shape.   *)
(***************************************************************************)
ConstructedBlobs(a, native) ==
  [i \in 1..Len(a.net_descriptor.input_layer_names) |->
     LET shape == NativeShape(a.net_descriptor.input_layer_names[i], native) IN
     IF i = 1 THEN <<a.batch_size, shape[2], shape[3], shape[4]>> ELSE shape]

Constructed(a, native) ==
  /\ args = a
  /\ frame_info = NoFrameInfo
  /\ input_blobs = ConstructedBlobs(a, native)
  /\ staged = [i \in 1..Len(a.net_descriptor.input_layer_names) |->
                 [j \in 1..ConstructedBlobs(a, native)[i][1] |-> Stale]]
  /\ overrun = FALSE
  /\ output_blobs = <<>>
  /\ pc = "idle"
  /\ input_count = 0
  /\ frame = 0
  /\ batch_count = 0
  /\ blocks = <<>>
  /\ output_columns = [o \in 1..Len(a.net_descriptor.output_layer_names) |-> <<>>]
  /\ chunks = <<>>
  /\ history = [op |-> "construct", repeated |-> FALSE,
                shape_before |-> ConstructedBlobs(a, native)[1],
                derived |-> ConstructedBlobs(a, native)[1]]

(***************************************************************************)
(* CaffeKernel::new_frame_info                                             *)
(***************************************************************************)
\* width and height before the padding
DerivedSize(fi, d) ==
  LET width0  == IF d.transpose THEN fi[2] ELSE fi[1]
      height0 == IF d.transpose THEN fi[1] ELSE fi[2]
  IN  IF d.preserve_aspect_ratio
      THEN IF d.input_width # Unset
           THEN LET width1 == d.input_width
                    scale  == F32Div(I32ToF32(d.input_width), I32ToF32(width1))
                IN  <<F32ToI32(F32Mul(I32ToF32(width1), scale)),
                      F32ToI32(F32Mul(I32ToF32(height0), scale))>>
           ELSE IF d.input_height # Unset
           THEN LET scale == F32Div(I32ToF32(d.input_height), I32ToF32(height0))
                IN  <<F32ToI32(F32Mul(I32ToF32(width0), scale)),
                      F32ToI32(F32Mul(I32ToF32(height0), scale))>>
           ELSE <<width0, height0>>
      ELSE IF d.input_width # Unset
           THEN <<d.input_width, d.input_height>>
           ELSE <<width0, height0>>

PadUpAlways(v, pad) == v + (pad - (v % pad))

\* v += (v % pad) ? pad - (v % pad) : 0
PadUp(v, pad) == v + (IF v % pad # 0 THEN pad - (v % pad) ELSE 0)

PaddedSize(size, d) ==
  IF d.pad_mod # Unset
  THEN <<PadUp(size[1], d.pad_mod), PadUp(size[2], d.pad_mod)>>
  ELSE size

\* the batch dimension after the first reshape of new_frame_info
BatchReshaped(blob, batch_size) ==
  IF blob[1] # batch_size
  THEN <<batch_size, blob[2], blob[3], blob[4]>>
  ELSE blob

SizeReshapedSwapped(blob, size) == <<blob[2], blob[1], size[2], size[1]>>

\* input_blob->Reshape({shape(0), shape(1), height, width})
SizeReshaped(blob, size) == <<blob[1], blob[2], size[2], size[1]>>

new_frame_info(blob, fi, a) ==
  SizeReshaped(BatchReshaped(blob, a.batch_size),
               PaddedSize(DerivedSize(fi, a.net_descriptor), a.net_descriptor))

\* VideoKernel hands the kernel the geometry of the frames to come
NewFrameInfo(g) ==
  /\ pc = "idle"
  /\ frame_info' = g
  /\ input_blobs' = [input_blobs EXCEPT ![1] = new_frame_info(@, g, args)]
  /\ history' = [op |-> "new_frame_info",
                 repeated |-> (history.op = "new_frame_info" /\ frame_info = g),
                 shape_before |-> input_blobs[1],
                 derived |-> new_frame_info(input_blobs[1], g, args)]
  /\ UNCHANGED <<document, parsed, args, staged, overrun, output_blobs, pc,
                 input_count, frame, batch_count, blocks, output_columns,
                 chunks>>

(***************************************************************************)
(* CaffeKernel::execute, one step per part of the body of its loop.        *)
(***************************************************************************)
\* check_frame_info: the geometry of the frames is the one the kernel was
\* last told of
check_frame_info(g) == g = frame_info

\* the head of execute: the frame info check and the loop initialisation
Execute(n, g) ==
  /\ pc = "idle"
  /\ check_frame_info(g)
  /\ pc' = "loop"
  /\ input_count' = n
  /\ frame' = 0
  /\ history' = [history EXCEPT !.op = "execute", !.repeated = FALSE,
                                !.shape_before = input_blobs[1]]
  /\ UNCHANGED <<document, parsed, args, frame_info, input_blobs, staged,
                 overrun, output_blobs, batch_count, blocks, output_columns,
                 chunks>>

BatchCountFull(count, f, batch_size) == batch_size

\* std::min(input_count - frame, batch_size)
BatchCount(count, f, batch_size) == Min(count - f, batch_size)

ReshapeAlways(blob, count) == TRUE

\* input_blobs[0]->shape(0) != batch_count
ReshapeNeeded(blob, count) == blob[1] # count

ChunkReshaped(blob, count) ==
  IF ReshapeNeeded(blob, count)
  THEN <<count, blob[2], blob[3], blob[4]>>
  ELSE blob

StagedRowFirstChunk(f, j) == j

\* the row of the input column copied to slot j of an input blob
StagedRow(f, j) == f + j

\* the memcpy_buffer loop over one input blob of capacity blob[1] rows:
\* the rows that fit land in the slots 0..count-1, a slot beyond keeps
\* what it held
StageBlob(blob, old, f, count) ==
  [s \in 1..blob[1] |->
     IF s <= count THEN StagedRow(f, s - 1)
     ELSE IF s <= Len(old) THEN old[s] ELSE Stale]

\* the loop test, the reshape of the first input blob and the staging of
\* the chunk's rows into every input blob
Stage ==
  /\ pc = "loop"
  /\ frame < input_count
  /\ LET count == BatchCount(input_count, frame, args.batch_size)
         blobs == [input_blobs EXCEPT ![1] = ChunkReshaped(@, count)]
     IN  /\ batch_count' = count
         /\ input_blobs' = blobs
         /\ staged' = [i \in DOMAIN blobs |->
                         StageBlob(blobs[i], staged[i], frame, count)]
         /\ overrun' = (overrun \/ \E i \in DOMAIN blobs : blobs[i][1] < count)
         /\ chunks' = Append(chunks,
                             [frame |-> frame, batch_count |-> count,
                              reshaped |-> ReshapeNeeded(input_blobs[1], count),
                              found |-> input_blobs[1][1],
                              passes |-> 0])
  /\ pc' = "forward"
  /\ UNCHANGED <<document, parsed, args, frame_info, output_blobs, input_count,
                 frame, blocks, output_columns, history>>

\* the bytes of an output blob after the forward pass: one slice of
\* OutputLength floats per slot of the first input blob, each byte tagged
\* <<layer, frame staged in the slot, offset in the slice>>
ForwardBlob(layer, name, blob, slots) ==
  LET slice == OutputLength(name) * SizeofFloat IN
  [count |-> blob[1] * OutputLength(name),
   data  |-> [x \in 1..(blob[1] * slice) |->
                <<layer, slots[((x - 1) \div slice) + 1], (x - 1) % slice>>]]

\* net_->ForwardPrefilled()
Forward ==
  /\ pc = "forward"
  /\ output_blobs' =
       [o \in 1..Len(args.net_descriptor.output_layer_names) |->
          ForwardBlob(o, args.net_descriptor.output_layer_names[o],
                      input_blobs[1], staged[1])]
  /\ chunks' = [chunks EXCEPT ![Len(chunks)].passes = @ + 1]
  /\ pc' = "save"
  /\ UNCHANGED <<document, parsed, args, frame_info, input_blobs, staged,
                 overrun, input_count, frame, batch_count, blocks,
                 output_columns, history>>

\* output_size of an output blob: (count / batch_count) * sizeof(float)
OutputSize(blob, count) == (blob.count \div count) * SizeofFloat

RECURSIVE TotalSize(_, _, _)
TotalSize(blobs, count, i) ==
  IF i = 0 THEN 0
  ELSE TotalSize(blobs, count, i - 1) + OutputSize(blobs[i], count) * count

DestBufferEqualLayers(blobs, count, i) ==
  (i - 1) * OutputSize(blobs[i], count) * count

\* dest_buffers[i]: output_block as advanced by the layers before i
DestBuffer(blobs, count, i) == TotalSize(blobs, count, i - 1)

\* the rows pushed for output layer i, all in block b
LayerRows(blobs, count, i, b) ==
  [r \in 1..count |->
     [block  |-> b,
      buffer |-> DestBuffer(blobs, count, i) + (r - 1) * OutputSize(blobs[i], count),
      size   |-> OutputSize(blobs[i], count)]]

\* memcpy_vec(dest_buffers, src_buffers, sizes) into a new block
CopiedBlock(blobs, count) ==
  LET total == TotalSize(blobs, count, Len(blobs))
      Src(x) == CHOOSE i \in DOMAIN blobs :
                  /\ DestBuffer(blobs, count, i) <= x
                  /\ x < DestBuffer(blobs, count, i) + OutputSize(blobs[i], count) * count
      Copied(x) == \E i \in DOMAIN blobs :
                  /\ DestBuffer(blobs, count, i) <= x
                  /\ x < DestBuffer(blobs, count, i) + OutputSize(blobs[i], count) * count
  IN  [size   |-> total,
       rows   |-> Len(blobs) * count,
       copies |-> [i \in DOMAIN blobs |->
                     [dest |-> DestBuffer(blobs, count, i),
                      size |-> OutputSize(blobs[i], count) * count]],
       data   |-> [x \in 1..total |->
                     IF Copied(x - 1)
                     THEN blobs[Src(x - 1)].data[x - DestBuffer(blobs, count, Src(x - 1))]
                     ELSE <<0, Stale, 0>>]]

\* "Save batch of frames": the block, the rows, the copy, and the loop step
Save ==
  /\ pc = "save"
  /\ blocks' = Append(blocks, CopiedBlock(output_blobs, batch_count))
  /\ output_columns' =
       [o \in DOMAIN output_columns |->
          output_columns[o] \o
            LayerRows(output_blobs, batch_count, o, Len(blocks) + 1)]
  /\ frame' = frame + args.batch_size
  /\ pc' = "loop"
  /\ UNCHANGED <<document, parsed, args, frame_info, input_blobs, staged,
                 overrun, output_blobs, input_count, batch_count, chunks,
                 history>>

\* the loop ends and execute returns: its locals are gone and the caller
\* takes the output columns with their blocks
Return ==
  /\ pc = "loop"
  /\ frame >= input_count
  /\ pc' = "idle"
  /\ input_count' = 0
  /\ frame' = 0
  /\ batch_count' = 0
  /\ blocks' = <<>>
  /\ output_columns' = [o \in DOMAIN output_columns |-> <<>>]
  /\ chunks' = <<>>
  /\ UNCHANGED <<document, parsed, args, frame_info, input_blobs, staged,
                 overrun, output_blobs, history>>

(***************************************************************************)
(* Specifications.                                                         *)
(***************************************************************************)
\* a kernel no document is parsed for, and a parser beside an idle kernel
NoDocument == [keys |-> {}, preserve |-> FALSE]

IdleArgs ==
  [batch_size |-> 1,
   net_descriptor |->
     CHOOSE d \in Descriptors({<<FALSE, Unset, Unset>>}, {Unset}, {FALSE},
                              {<<"data">>}, {<<"prob">>}) : TRUE]

\* the kernels of Spec: every batch size and layer binding, two input
\* size settings
KernelArgs ==
  { [batch_size |-> b, net_descriptor |-> d] :
      b \in 1..MaxBatch,
      d \in Descriptors({<<FALSE, Unset, Unset>>}, {Unset}, {FALSE},
                        InputLayerChoices, OutputLayerChoices)
            \cup Descriptors({<<TRUE, Unset, 240>>}, {32}, {TRUE},
                             InputLayerChoices, OutputLayerChoices) }

\* the kernels of SpecShape: every input size setting, one layer binding
ShapeArgs ==
  { [batch_size |-> b, net_descriptor |-> d] :
      b \in 1..MaxBatch,
      d \in Descriptors(SizeChoices, PadChoices, BOOLEAN,
                        {<<"data">>}, {<<"prob">>}) }

Init ==
  /\ document = NoDocument
  /\ parsed = NotParsed
  /\ \E a \in KernelArgs, native \in NativeBatchSizes : Constructed(a, native)

Next ==
  \/ \E g \in Geometries : NewFrameInfo(g)
  \/ \E n \in 0..MaxFrames, g \in Geometries : Execute(n, g)
  \/ Stage
  \/ Forward
  \/ Save
  \/ Return

Spec == Init /\ [][Next]_vars

InitShape ==
  /\ document = NoDocument
  /\ parsed = NotParsed
  /\ \E a \in ShapeArgs : Constructed(a, 1)

NextShape == \E g \in Geometries : NewFrameInfo(g)

SpecShape == InitShape /\ [][NextShape]_vars

Parse ==
  /\ parsed = NotParsed
  /\ parsed' = descriptor_from_net_file(document)
  /\ UNCHANGED <<document, args, frame_info, input_blobs, staged, overrun,
                 output_blobs, pc, input_count, frame, batch_count, blocks,
                 output_columns, chunks, history>>

InitParse ==
  /\ document \in Documents
  /\ parsed = NotParsed
  /\ Constructed(IdleArgs, 1)

NextParse == Parse

SpecParse == InitParse /\ [][NextParse]_vars

(***************************************************************************)
(* Properties of execute.                                                  *)
(***************************************************************************)
\* the loop of the current execute call has ended
Done == pc = "loop" /\ frame >= input_count

\* the bytes a row points to
RowBytes(row) ==
  SubSeq(blocks[row.block].data, row.buffer + 1, row.buffer + row.size)

\* the byte offsets of a block a row covers
RowRange(row) == row.buffer .. (row.buffer + row.size - 1)

\* the result of output layer o for frame k: OutputLength floats
ResultBytes(o, k) ==
  [x \in 1..(OutputLength(args.net_descriptor.output_layer_names[o]) * SizeofFloat)
     |-> <<o, k, x - 1>>]

\* C1: when an execute call on n frames ends, every output column holds
\* exactly n rows, and row k of column o holds the bytes of output layer
\* o's result for input frame k, for every k in 0..n-1.
C1_RowsFollowFrames ==
  Done =>
    \A o \in DOMAIN output_columns :
      /\ Len(output_columns[o]) = input_count
      /\ \A k \in 1..input_count :
           RowBytes(output_columns[o][k]) = ResultBytes(o, k - 1)

C1_Witness ==
  /\ Done
  /\ input_count = 10
  /\ args.batch_size = 4
  /\ Len(output_columns) = 2
  /\ Len(output_columns[2]) = 10
  /\ RowBytes(output_columns[2][10]) = ResultBytes(2, 9)

RECURSIVE SumCounts(_, _)
SumCounts(log, c) ==
  IF c = 0 THEN 0 ELSE SumCounts(log, c - 1) + log[c].batch_count

\* C2: an execute call on n frames with batch size B ends after exactly
\* ceil(n/B) chunks with one forward pass each; every chunk but the last
\* has size B, the last has size n - B*(ceil(n/B)-1), in 1..B; the sizes
\* sum to n and chunk c starts at the frame the chunks before it end at;
\* during the call there are never more chunks or passes than that.
C2_ChunkPartition ==
  LET B == args.batch_size
      q == (input_count + B - 1) \div B
  IN  /\ Len(chunks) <= q
      /\ \A c \in 1..Len(chunks) : chunks[c].passes <= 1
      /\ Done =>
            /\ Len(chunks) = q
            /\ \A c \in 1..Len(chunks) :
                 /\ chunks[c].passes = 1
                 /\ chunks[c].frame = SumCounts(chunks, c - 1)
                 /\ c < q => chunks[c].batch_count = B
                 /\ c = q => /\ chunks[c].batch_count = input_count - B * (q - 1)
                             /\ chunks[c].batch_count \in 1..B
            /\ SumCounts(chunks, Len(chunks)) = input_count

C2_Witness ==
  /\ Done
  /\ input_count = 10
  /\ args.batch_size = 4
  /\ Len(chunks) = 3
  /\ <<chunks[1].batch_count, chunks[2].batch_count, chunks[3].batch_count>>
       = <<4, 4, 2>>

\* the rows of output column o that lie in block b
RowsIn(o, b) ==
  { output_columns[o][k] :
      k \in { j \in DOMAIN output_columns[o] : output_columns[o][j].block = b } }

\* C3: in every block, the rows pushed to the output columns are pairwise
\* disjoint byte ranges inside the block that together cover exactly its
\* allocated size; the range output layer o's blob is copied to is exactly
\* the union of the rows of column o in the block; and no row of column o
\* holds a byte of another layer.
C3_RowsPartitionBlock ==
  \A b \in DOMAIN blocks :
    LET cols == DOMAIN output_columns
        all  == UNION { RowsIn(o, b) : o \in cols }
    IN  /\ \A r \in all : RowRange(r) \subseteq 0..(blocks[b].size - 1)
        /\ \A o1 \in cols, o2 \in cols :
             \A k1 \in DOMAIN output_columns[o1], k2 \in DOMAIN output_columns[o2] :
               /\ output_columns[o1][k1].block = b
               /\ output_columns[o2][k2].block = b
               /\ <<o1, k1>> # <<o2, k2>>
               => RowRange(output_columns[o1][k1])
                    \cap RowRange(output_columns[o2][k2]) = {}
        /\ UNION { RowRange(r) : r \in all } = 0..(blocks[b].size - 1)
        /\ \A o \in cols :
             /\ UNION { RowRange(r) : r \in RowsIn(o, b) }
                  = blocks[b].copies[o].dest
                      .. (blocks[b].copies[o].dest + blocks[b].copies[o].size - 1)
             /\ \A r \in RowsIn(o, b) :
                  \A x \in 1..r.size : RowBytes(r)[x][1] = o

C3_Witness ==
  \E b \in DOMAIN blocks :
    /\ Len(blocks[b].copies) = 2
    /\ blocks[b].rows = 6
    /\ blocks[b].size = 36
    /\ Cardinality(RowsIn(1, b)) = 3
    /\ Cardinality(RowsIn(2, b)) = 3

\* C9: at every forward pass, the batch dimension of every input blob of
\* the descriptor equals the batch count of the chunk.
C9_EveryInputBlobHoldsChunk ==
  pc = "forward" =>
    \A i \in DOMAIN input_blobs : input_blobs[i][1] = batch_count

TrailingShort(c) ==
  /\ chunks[c].batch_count < args.batch_size
  /\ chunks[c].frame + chunks[c].batch_count = input_count

\* the height, width and channels bound by the last new_frame_info are
\* still those of the first input blob
SizeKept ==
  frame_info # NoFrameInfo =>
    <<input_blobs[1][2], input_blobs[1][3], input_blobs[1][4]>>
      = <<history.derived[2], history.derived[3], history.derived[4]>>

\* C10 (as claimed): in the chunk loop only a trailing chunk shorter than
\* the batch size triggers the reshape of the batch dimension; every
\* full-size chunk finds the batch dimension equal to the batch size; and
\* height, width and channels stay as new_frame_info derived them.
C10_OnlyTrailingChunkReshapes ==
  /\ \A c \in DOMAIN chunks :
       /\ chunks[c].reshaped => TrailingShort(c)
       /\ chunks[c].batch_count = args.batch_size
            => chunks[c].found = args.batch_size
  /\ SizeKept

\* C10 (amended): the reshape is triggered only by a trailing chunk shorter
\* than the batch size or by the first chunk of a call that starts with
\* the batch dimension a short trailing chunk of an earlier call left;
\* every other chunk finds the batch dimension equal to its batch count;
\* and height, width and channels stay as new_frame_info derived them.
C10_ReshapeAfterShortChunk ==
  /\ \A c \in DOMAIN chunks :
       /\ chunks[c].reshaped =>
            \/ TrailingShort(c)
            \/ c = 1 /\ history.shape_before[1] # args.batch_size
       /\ chunks[c].reshaped <=> chunks[c].found # chunks[c].batch_count
       /\ (c > 1 \/ history.shape_before[1] = args.batch_size)
            /\ chunks[c].batch_count = args.batch_size
            => chunks[c].found = args.batch_size /\ ~chunks[c].reshaped
  /\ SizeKept

C10_Witness ==
  /\ Len(chunks) >= 2
  /\ chunks[1].reshaped
  /\ chunks[1].batch_count = args.batch_size
  /\ chunks[1].found < args.batch_size
  /\ ~chunks[2].reshaped

(***************************************************************************)
(* Properties of new_frame_info.                                           *)
(***************************************************************************)
\* the frame geometry after the transpose swap
Transposed(fi, d) == IF d.transpose THEN <<fi[2], fi[1]>> ELSE fi

\* C4: with preserve_aspect_ratio and input_width set, new_frame_info
\* derives (before padding) width = input_width and
\* height = H * input_width / W truncated, (W, H) the frame geometry after
\* the transpose swap.
C4_HeightScaledByWidthRatio ==
  LET d  == args.net_descriptor
      fi == Transposed(frame_info, d)
  IN  /\ history.op = "new_frame_info"
      /\ d.preserve_aspect_ratio
      /\ d.input_width # Unset
      /\ d.pad_mod = Unset
      => /\ input_blobs[1][4] = d.input_width
         /\ input_blobs[1][3] = (fi[2] * d.input_width) \div fi[1]

\* C5: after new_frame_info with pad_mod = p >= 1, the width and the
\* height of the input blob are the least multiples of p that are not
\* below the derived width and height; with pad_mod unset they are the
\* derived width and height.  (300, 211) with p = 32 gives (320, 224) and
\* (256, 256) stays.
C5_PadRoundsUp ==
  history.op = "new_frame_info" =>
    LET d    == args.net_descriptor
        p    == d.pad_mod
        size == DerivedSize(frame_info, d)
        w    == input_blobs[1][4]
        h    == input_blobs[1][3]
    IN  /\ p >= 1 => /\ w % p = 0 /\ w >= size[1] /\ w - size[1] < p
                     /\ h % p = 0 /\ h >= size[2] /\ h - size[2] < p
        /\ p = Unset => <<w, h>> = size
        /\ p = 32 /\ size = <<300, 211>> => <<w, h>> = <<320, 224>>
        /\ p = 32 /\ size = <<256, 256>> => <<w, h>> = <<256, 256>>

C5_Witness ==
  /\ history.op = "new_frame_info"
  /\ args.net_descriptor.pad_mod = 32
  /\ DerivedSize(frame_info, args.net_descriptor) = <<300, 211>>
  /\ <<input_blobs[1][4], input_blobs[1][3]>> = <<320, 224>>

\* C8: a new_frame_info call that directly follows a new_frame_info call
\* with the same frame geometry leaves the shape of the input blob as the
\* first call left it.
C8_SecondCallKeepsShape ==
  history.op = "new_frame_info" /\ history.repeated
    => input_blobs[1] = history.shape_before

C8_Witness ==
  /\ history.op = "new_frame_info"
  /\ history.repeated
  /\ frame_info = <<640, 480>>
  /\ args.net_descriptor.pad_mod = 32
  /\ args.net_descriptor.preserve_aspect_ratio
  /\ input_blobs[1] = history.shape_before
  /\ input_blobs[1][1] = args.batch_size

(***************************************************************************)
(* Properties of descriptor_from_net_file.                                 *)
(***************************************************************************)
PreserveSet(doc) == Find(doc, "net.preserve_aspect_ratio") /\ doc.preserve

\* C6: on a document with preserve_aspect_ratio = true, the parser
\* succeeds only when exactly one of net.input_width and net.input_height
\* is present; with both or neither it ends in a fatal error and returns
\* no descriptor; with exactly one, the descriptor carries that value and
\* the other dimension is unset.
C6_ExactlyOneOfWidthHeight ==
  parsed.status # "none" /\ PreserveSet(document) =>
    LET w == Find(document, "net.input_width")
        h == Find(document, "net.input_height")
    IN  /\ w = h => parsed.status = "fatal" /\ parsed.descriptor = NoDescriptor
        /\ parsed.status = "ok" /\ w /\ ~h =>
             /\ parsed.descriptor.input_width = IntValue("net.input_width")
             /\ parsed.descriptor.input_height = Unset
        /\ parsed.status = "ok" /\ h /\ ~w =>
             /\ parsed.descriptor.input_height = IntValue("net.input_height")
             /\ parsed.descriptor.input_width = Unset

\* the required keys, in the order the claim checks them
RequiredKeys ==
  <<"net", "net.model", "net.weights", "net.input_layers", "net.output_layers",
    "net.input", "net.input.dimensions", "net.input.channel_ordering",
    "mean-image">>

LacksRequired(doc) == \E i \in DOMAIN RequiredKeys : ~Find(doc, RequiredKeys[i])

FirstMissing(doc) ==
  RequiredKeys[CHOOSE i \in DOMAIN RequiredKeys :
                 /\ ~Find(doc, RequiredKeys[i])
                 /\ \A j \in 1..(i - 1) : Find(doc, RequiredKeys[j])]

FailedEarly ==
  /\ parsed.status = "fatal"
  /\ parsed.descriptor = NoDescriptor
  /\ parsed.mean_reads = 0
  /\ parsed.net_loads = 0

\* C7 (as claimed): on a document that lacks a required key the parser
\* ends in a fatal error that names the first missing required key,
\* returns no descriptor and reads no mean image and loads no net.
C7_FirstMissingKeyNamed ==
  parsed.status # "none" /\ LacksRequired(document) =>
    /\ FailedEarly
    /\ parsed.diag = FirstMissing(document)

\* the document fails the input size check: preserve_aspect_ratio is true
\* and neither net.input_width nor net.input_height is present
NoSizeGiven(doc) ==
  /\ PreserveSet(doc)
  /\ ~Find(doc, "net.input_width")
  /\ ~Find(doc, "net.input_height")

\* C7 (amended): on a document that lacks a required key the parser ends
\* in a fatal error, returns no descriptor and reads no mean image and
\* loads no net; the error names the first missing required key, unless
\* only mean-image is missing and the input size check fails, which the
\* error then names.
C7_FirstFailedCheckNamed ==
  parsed.status # "none" /\ LacksRequired(document) =>
    /\ FailedEarly
    /\ parsed.diag =
         IF FirstMissing(document) = "mean-image" /\ NoSizeGiven(document)
         THEN "preserve_aspect_ratio"
         ELSE FirstMissing(document)

C7_Witness ==
  /\ parsed.status = "fatal"
  /\ parsed.diag = "net.output_layers"
  /\ ~Find(document, "net.output_layers")
  /\ \A i \in DOMAIN RequiredKeys :
       RequiredKeys[i] # "net.output_layers" => Find(document, RequiredKeys[i])

====
